---- MODULE Spec2Model ----
(***************************************************************************)
(* Model of calculator.py: the two finance functions, computed in IEEE-754 *)
(* binary64 as Python's float computes them, and the console loop of       *)
(* run_mortgage_calculator_app with its menu.                              *)
(***************************************************************************)
EXTENDS Integers, Sequences, FiniteSets, TLC

(***************************************************************************)
(* Natural numbers of any size: little-endian sequences of limbs in        *)
(* 0..Base-1 with no leading zero limb; <<>> is 0.  They carry the         *)
(* significands and the exact intermediate results of the float            *)
(* operations (the model checker's own integers are 32 bits wide).         *)
(***************************************************************************)
LimbBits == 15
Base == 2^LimbBits

Max(a, b) == IF a >= b THEN a ELSE b
Min(a, b) == IF a <= b THEN a ELSE b

\* y, with x evaluated first.  A loop over lo..hi that carries acc from one
\* step to the next is written as the loop over the lower half and then
\* the loop over the upper half, each with acc evaluated before it starts:
\* the evaluation nests as deep as the logarithm of the length of the loop.
After(x, y) == IF x = x THEN y ELSE y

\* the highest i in lo..hi with a[i] # 0, or 0
RECURSIVE BTop(_, _, _)
BTop(a, lo, hi) ==
  IF lo > hi THEN 0
  ELSE IF a[hi] # 0 THEN hi
  ELSE IF lo = hi THEN 0
  ELSE IF \A i \in ((lo + hi) \div 2) + 1..hi : a[i] = 0
  THEN BTop(a, lo, (lo + hi) \div 2)
  ELSE BTop(a, ((lo + hi) \div 2) + 1, hi)

\* a without its leading zero limbs
BNorm(a) == SubSeq(a, 1, BTop(a, 1, Len(a)))

RECURSIVE BFromInt(_)
BFromInt(n) == IF n = 0 THEN <<>> ELSE <<n % Base>> \o BFromInt(n \div Base)

\* limbs lo..hi of a and b compared, from the highest down
RECURSIVE BCmpFrom(_, _, _, _)
BCmpFrom(a, b, lo, hi) ==
  IF lo > hi THEN 0
  ELSE IF lo = hi
  THEN (IF a[lo] < b[lo] THEN -1 ELSE IF a[lo] > b[lo] THEN 1 ELSE 0)
  ELSE IF \A i \in ((lo + hi) \div 2) + 1..hi : a[i] = b[i]
  THEN BCmpFrom(a, b, lo, (lo + hi) \div 2)
  ELSE BCmpFrom(a, b, ((lo + hi) \div 2) + 1, hi)

\* -1, 0, 1 as a < b, a = b, a > b
BCmp(a, b) ==
  IF Len(a) < Len(b) THEN -1
  ELSE IF Len(a) > Len(b) THEN 1
  ELSE BCmpFrom(a, b, 1, Len(a))

\* limbs lo..hi added: acc holds limbs 1..lo-1 of the sum and then the
\* carry into limb lo
RECURSIVE BAddFrom(_, _, _, _, _)
BAddFrom(a, b, lo, hi, acc) ==
  After(acc,
    IF lo > hi THEN acc
    ELSE IF lo = hi
    THEN LET s == (IF lo <= Len(a) THEN a[lo] ELSE 0)
                    + (IF lo <= Len(b) THEN b[lo] ELSE 0) + acc[lo]
         IN  SubSeq(acc, 1, lo - 1) \o <<s % Base, s \div Base>>
    ELSE BAddFrom(a, b, ((lo + hi) \div 2) + 1, hi,
                  BAddFrom(a, b, lo, (lo + hi) \div 2, acc)))

BAdd(a, b) == BNorm(BAddFrom(a, b, 1, Max(Len(a), Len(b)), <<0>>))

\* limbs lo..hi subtracted: acc holds limbs 1..lo-1 of the difference and
\* then the borrow from limb lo
RECURSIVE BSubFrom(_, _, _, _, _)
BSubFrom(a, b, lo, hi, acc) ==
  After(acc,
    IF lo > hi THEN acc
    ELSE IF lo = hi
    THEN LET s == a[lo] - (IF lo <= Len(b) THEN b[lo] ELSE 0) - acc[lo]
         IN  SubSeq(acc, 1, lo - 1)
               \o <<IF s < 0 THEN s + Base ELSE s, IF s < 0 THEN 1 ELSE 0>>
    ELSE BSubFrom(a, b, ((lo + hi) \div 2) + 1, hi,
                  BSubFrom(a, b, lo, (lo + hi) \div 2, acc)))

\* a - b for a >= b
BSub(a, b) == BNorm(BSubFrom(a, b, 1, Len(a), <<0>>))

\* limbs lo..hi multiplied: acc holds limbs 1..lo-1 of the product and then
\* the carry into limb lo
RECURSIVE BMulSmallFrom(_, _, _, _, _)
BMulSmallFrom(a, k, lo, hi, acc) ==
  After(acc,
    IF lo > hi THEN acc
    ELSE IF lo = hi
    THEN LET s == a[lo] * k + acc[lo]
         IN  SubSeq(acc, 1, lo - 1) \o <<s % Base, s \div Base>>
    ELSE BMulSmallFrom(a, k, ((lo + hi) \div 2) + 1, hi,
                       BMulSmallFrom(a, k, lo, (lo + hi) \div 2, acc)))

\* a * k for 0 <= k < Base
BMulSmall(a, k) == BNorm(BMulSmallFrom(a, k, 1, Len(a), <<0>>))

\* a times limbs lo..hi of b
RECURSIVE BMulFrom(_, _, _, _)
BMulFrom(a, b, lo, hi) ==
  IF lo = hi
  THEN (IF b[lo] = 0 THEN <<>> ELSE [i \in 1..(lo - 1) |-> 0] \o BMulSmall(a, b[lo]))
  ELSE BAdd(BMulFrom(a, b, lo, (lo + hi) \div 2),
            BMulFrom(a, b, ((lo + hi) \div 2) + 1, hi))

BMul(a, b) == IF a = <<>> \/ b = <<>> THEN <<>> ELSE BMulFrom(a, b, 1, Len(b))

RECURSIVE IntBitLen(_)
IntBitLen(n) == IF n = 0 THEN 0 ELSE 1 + IntBitLen(n \div 2)

BBitLen(a) ==
  IF a = <<>> THEN 0 ELSE LimbBits * (Len(a) - 1) + IntBitLen(a[Len(a)])

\* bit i of a, bit 0 the lowest
BBit(a, i) ==
  LET l == (i \div LimbBits) + 1
  IN  IF l > Len(a) THEN 0 ELSE (a[l] \div 2^(i % LimbBits)) % 2

\* a * 2^k
BShl(a, k) ==
  IF a = <<>> THEN <<>>
  ELSE [i \in 1..(k \div LimbBits) |-> 0] \o BMulSmall(a, 2^(k % LimbBits))

\* limbs hi..lo divided by k, 0 < k < Base, from the highest down: acc
\* holds the remainder so far and then limbs hi+1.. of the quotient
RECURSIVE BDivSmallFrom(_, _, _, _, _)
BDivSmallFrom(a, k, lo, hi, acc) ==
  After(acc,
    IF lo > hi THEN acc
    ELSE IF lo = hi
    THEN LET s == acc[1] * Base + a[lo]
         IN  <<s % k, s \div k>> \o Tail(acc)
    ELSE BDivSmallFrom(a, k, lo, (lo + hi) \div 2,
                       BDivSmallFrom(a, k, ((lo + hi) \div 2) + 1, hi, acc)))

\* floor(a / 2^k)
BShr(a, k) ==
  LET d == k \div LimbBits
  IN  IF d >= Len(a) THEN <<>>
      ELSE BNorm(Tail(BDivSmallFrom(a, 2^(k % LimbBits), d + 1, Len(a), <<0>>)))

\* whether the k lowest bits of a are all 0
BLowZero(a, k) == BShl(BShr(a, k), k) = a

\* the largest k in 0..Base-1 with d * k <= r, for r < d * Base
RECURSIVE QDigit(_, _, _, _)
QDigit(r, d, bit, acc) ==
  IF bit < 0 THEN acc
  ELSE LET t == acc + 2^bit
       IN  IF BCmp(BMulSmall(d, t), r) <= 0
           THEN QDigit(r, d, bit - 1, t)
           ELSE QDigit(r, d, bit - 1, acc)

\* long division, limbs hi..lo of n brought down from the highest: st.q
\* holds limbs hi+1.. of the quotient and st.r the remainder so far
RECURSIVE BDivFrom(_, _, _, _, _)
BDivFrom(n, d, lo, hi, st) ==
  After(st,
    IF lo > hi THEN st
    ELSE IF lo = hi
    THEN LET r2 == BNorm(<<n[lo]>> \o st.r)
             qd == QDigit(r2, d, LimbBits - 1, 0)
         IN  [q |-> <<qd>> \o st.q, r |-> BSub(r2, BMulSmall(d, qd))]
    ELSE BDivFrom(n, d, lo, (lo + hi) \div 2,
                  BDivFrom(n, d, ((lo + hi) \div 2) + 1, hi, st)))

\* floor(n / d) and whether n is a multiple of d, for d > 0: the highest
\* Len(d) - 1 limbs of n are below d, the limbs under them are brought down
BDiv(n, d) ==
  LET k == Max(0, Len(n) - Len(d) + 1)
      st == BDivFrom(n, d, 1, k, [q |-> <<>>, r |-> SubSeq(n, k + 1, Len(n))])
  IN  [q |-> BNorm(st.q), exact |-> (st.r = <<>>)]

(***************************************************************************)
(* Python's float: IEEE-754 binary64, round to nearest, ties to even.  A   *)
(* finite value is s * m * 2^e with m a natural number below 2^MantBits;   *)
(* it is normal with m >= 2^(MantBits-1), or subnormal with e = EMin, or   *)
(* zero (m = 0, e = 0); a zero keeps its sign s, as -0.0 does.             *)
(***************************************************************************)
MantBits == 53
EMin == -1074
EMax == 1024

NaN == [k |-> "nan", s |-> 1, m |-> <<>>, e |-> 0]
Inf(s) == [k |-> "inf", s |-> s, m |-> <<>>, e |-> 0]
Fin(s, m, e) == [k |-> "fin", s |-> s, m |-> m, e |-> e]
FZero == Fin(1, <<>>, 0)
Ovf(s) == [k |-> "ovf", s |-> s, m |-> <<>>, e |-> 0]

IsNaN(x) == x.k = "nan"
IsInf(x) == x.k = "inf"
IsFin(x) == x.k = "fin"
IsZero(x) == x.k = "fin" /\ x.m = <<>>

\* A heavy intermediate value is handed on as an operator argument, so that
\* it is computed once where several later steps read it.

\* the last step of rounding: the significand m fits
RoundFit(s, m, e) ==
  IF m = <<>> THEN Fin(s, <<>>, 0)
  ELSE IF e + MantBits > EMax THEN Ovf(s)
  ELSE Fin(s, m, e)

\* rounding up may have carried into one bit more
RoundCarry(s, m, e) ==
  IF BBitLen(m) > MantBits THEN RoundFit(s, BShr(m, 1), e + 1)
  ELSE RoundFit(s, m, e)

\* mt is the truncated significand; half: the first bit cut off is set;
\* low: something below that bit is not zero
RoundNearest(s, mt, e, half, low) ==
  RoundCarry(s, IF half /\ (low \/ BBit(mt, 0) = 1) THEN BAdd(mt, <<1>>) ELSE mt, e)

\* m has len bits and the result has exponent e2 = e + sh
RoundTo(s, m, st, len, e2, sh) ==
  IF sh <= 0
  THEN (IF e2 + MantBits > EMax /\ len - sh = MantBits
        THEN Ovf(s) ELSE Fin(s, BShl(m, -sh), e2))
  ELSE RoundNearest(s, BShr(m, sh), e2, BBit(m, sh - 1) = 1,
                    st \/ ~BLowZero(m, sh - 1))

RoundLen(s, m, e, st, len) ==
  RoundTo(s, m, st, len, Max(e + len - MantBits, EMin),
          Max(e + len - MantBits, EMin) - e)

\* The float nearest to s * (m + f) * 2^e, where 0 <= f < 1 and f > 0 iff
\* st; when st, m has more than MantBits + 1 bits.  Ovf(s) when the
\* rounded value is 2^EMax or more; a zero of sign s when it is 0.
Round(s, m, e, st) ==
  IF m = <<>> THEN Fin(s, <<>>, 0) ELSE RoundLen(s, m, e, st, BBitLen(m))

\* qr is the quotient and whether the division was exact
RoundQuot(s, qr, e, st) == Round(s, qr.q, e, st \/ ~qr.exact)

RoundRatBy(s, n, d, e, sh) == RoundQuot(s, BDiv(BShl(n, sh), d), e - sh, FALSE)

\* The float nearest to s * (n / d) * 2^e
RoundRat(s, n, d, e) ==
  IF n = <<>> THEN Fin(s, <<>>, 0)
  ELSE RoundRatBy(s, n, d, e, Max(0, MantBits + 3 + BBitLen(d) - BBitLen(n)))

\* an overflowing result of + - * / is an infinity
OrInf(x) == IF x.k = "ovf" THEN Inf(x.s) ELSE x

\* the float of a small int constant of the program
FromInt(n) ==
  OrInf(Round(IF n < 0 THEN -1 ELSE 1, BFromInt(IF n < 0 THEN -n ELSE n), 0, FALSE))

\* -1, 0, 1 as |x| < |y|, |x| = |y|, |x| > |y|, for finite x and y
MagCmp(x, y) ==
  IF x.m = <<>> THEN (IF y.m = <<>> THEN 0 ELSE -1)
  ELSE IF y.m = <<>> THEN 1
  ELSE LET tx == BBitLen(x.m) + x.e
           ty == BBitLen(y.m) + y.e
       IN  IF tx < ty THEN -1
           ELSE IF tx > ty THEN 1
           ELSE LET lo == Min(x.e, y.e)
                IN  BCmp(BShl(x.m, x.e - lo), BShl(y.m, y.e - lo))

\* -1, 0, 1 as x < y, x = y, x > y, for x and y not NaN; -0.0 equals 0.0
FCmp(x, y) ==
  LET sx == IF IsZero(x) THEN 0 ELSE x.s
      sy == IF IsZero(y) THEN 0 ELSE y.s
  IN  IF sx # sy THEN (IF sx < sy THEN -1 ELSE 1)
      ELSE IF sx = 0 THEN 0
      ELSE IF IsInf(x) THEN (IF IsInf(y) THEN 0 ELSE sx)
      ELSE IF IsInf(y) THEN -sx
      ELSE sx * MagCmp(x, y)

\* Python's comparisons: every comparison with a NaN is False
FLt(x, y) == ~IsNaN(x) /\ ~IsNaN(y) /\ FCmp(x, y) < 0
FLe(x, y) == ~IsNaN(x) /\ ~IsNaN(y) /\ FCmp(x, y) <= 0
FEq(x, y) == ~IsNaN(x) /\ ~IsNaN(y) /\ FCmp(x, y) = 0

FNeg(x) == IF IsNaN(x) THEN x ELSE [x EXCEPT !.s = -x.s]

\* How far below the larger operand's lowest bit the smaller operand of a
\* sum is still added exactly; below that it only makes the sum inexact.
GuardBits == 64

\* a significand of any width, with its exponent and whether bits were cut
Wide(m, e, st) == [m |-> m, e |-> e, st |-> st]

RoundWide(s, w) == Round(s, w.m, w.e, w.st)

\* |x| + |y| or |x| - |y|, as the signs agree or not, for finite nonzero x
\* and y with |x| >= |y|
Sum(x, y) ==
  IF x.e - y.e > MantBits + GuardBits
  THEN Wide(IF x.s = y.s THEN BShl(x.m, GuardBits)
            ELSE BSub(BShl(x.m, GuardBits), <<1>>),
            x.e - GuardBits, TRUE)
  ELSE LET lo == Min(x.e, y.e)
           a == BShl(x.m, x.e - lo)
           b == BShl(y.m, y.e - lo)
       IN  Wide(IF x.s = y.s THEN BAdd(a, b) ELSE BSub(a, b), lo, FALSE)

\* x + y for finite nonzero x, y with |x| >= |y|; a sum that cancels is 0.0
AddOrdered(x, y) ==
  RoundWide(IF x.s # y.s /\ MagCmp(x, y) = 0 THEN 1 ELSE x.s, Sum(x, y))

\* the sum of two zeros is -0.0 only when both are
FAdd(x, y) ==
  IF IsNaN(x) \/ IsNaN(y) THEN NaN
  ELSE IF IsInf(x) THEN (IF IsInf(y) /\ x.s # y.s THEN NaN ELSE x)
  ELSE IF IsInf(y) THEN y
  ELSE IF IsZero(x) THEN (IF IsZero(y) /\ x.s # y.s THEN FZero ELSE y)
  ELSE IF IsZero(y) THEN x
  ELSE OrInf(AddOrdered(IF MagCmp(x, y) >= 0 THEN x ELSE y,
                        IF MagCmp(x, y) >= 0 THEN y ELSE x))

FSub(x, y) == FAdd(x, FNeg(y))

FMul(x, y) ==
  IF IsNaN(x) \/ IsNaN(y) THEN NaN
  ELSE IF IsInf(x) \/ IsInf(y)
       THEN (IF IsZero(x) \/ IsZero(y) THEN NaN ELSE Inf(x.s * y.s))
  ELSE OrInf(Round(x.s * y.s, BMul(x.m, y.m), x.e + y.e, FALSE))

\* x / y for y not zero
FDiv(x, y) ==
  IF IsNaN(x) \/ IsNaN(y) THEN NaN
  ELSE IF IsInf(x) THEN (IF IsInf(y) THEN NaN ELSE Inf(x.s * y.s))
  ELSE IF IsInf(y) THEN Fin(x.s * y.s, <<>>, 0)
  ELSE OrInf(RoundRat(x.s * y.s, x.m, y.m, x.e - y.e))

(***************************************************************************)
(* x ** y for a float y that is a whole number >= 1, as float_pow calls    *)
(* the C library's pow with the int exponent converted to float.  The C    *)
(* library's pow is not correctly rounded: its error is below one unit in  *)
(* the last place, so an inexact power comes back as the float just below  *)
(* it or the float just above it, as the build's library decides           *)
(* (pow_rounds_up); an exact power comes back exactly.  The power is       *)
(* computed on significands of WideBits bits, truncated.                   *)
(***************************************************************************)
WideBits == 160

WTrunc(w, bits) ==
  LET sh == BBitLen(w.m) - bits
  IN  IF sh <= 0 THEN w
      ELSE Wide(BShr(w.m, sh), w.e + sh, w.st \/ ~BLowZero(w.m, sh))

\* a * b cut to bits bits.  The exponent is kept within -2^20..2^20: a
\* power beyond is out of a float's range, and so is every power after it.
WMul(a, b, bits) ==
  WTrunc(Wide(BMul(a.m, b.m), Max(-(2^20), Min(2^20, a.e + b.e)), a.st \/ b.st),
         bits)

\* by repeated squaring, for bits hi..lo of n from the highest down: acc is
\* w to the power of the bits of n above bit hi
RECURSIVE WPowFrom(_, _, _, _, _, _)
WPowFrom(w, n, lo, hi, acc, bits) ==
  After(acc,
    IF lo > hi THEN acc
    ELSE IF lo = hi
    THEN (IF BBit(n, lo) = 1 THEN WMul(WMul(acc, acc, bits), w, bits)
          ELSE WMul(acc, acc, bits))
    ELSE WPowFrom(w, n, lo, (lo + hi) \div 2,
                  WPowFrom(w, n, ((lo + hi) \div 2) + 1, hi, acc, bits), bits))

\* w to the power of the natural number n >= 1, every product cut to bits
\* bits
WPow(w, n, bits) == WPowFrom(w, n, 0, BBitLen(n) - 2, w, bits)

\* a Python int of any size: its sign and its magnitude; 0 has sign 1
BigInt(s, m) == [s |-> s, m |-> m]

\* What a Python expression yields: a float, an int, a str, or an exception
\* of class exc whose str() is text; Unbound is a name not yet assigned.
PyFloat(x) ==
  [tag |-> "float", num |-> x, int |-> BigInt(1, <<>>), text |-> "", exc |-> ""]
PyInt(n) ==
  [tag |-> "int", num |-> FZero, int |-> n, text |-> "", exc |-> ""]
PyStr(t) ==
  [tag |-> "str", num |-> FZero, int |-> BigInt(1, <<>>), text |-> t, exc |-> ""]
PyRaise(c, t) ==
  [tag |-> "raise", num |-> FZero, int |-> BigInt(1, <<>>), text |-> t, exc |-> c]
Unbound ==
  [tag |-> "unbound", num |-> FZero, int |-> BigInt(1, <<>>), text |-> "", exc |-> ""]

\* int -> float, where an int meets a float in / * **: the nearest float,
\* or OverflowError when that is 2^EMax or more
ToFloat(n) ==
  LET r == Round(n.s, n.m, 0, FALSE)
  IN  IF r.k = "ovf"
      THEN PyRaise("OverflowError", "int too large to convert to float")
      ELSE PyFloat(r)

\* The float pow returns for the power w cut to MantBits bits: w itself, or
\* the next float when bits were cut and the library rounds up.  float_pow
\* raises OverflowError when the result is out of range.
PowResult(s, w, pow_rounds_up) ==
  LET r == RoundWide(s, Wide(IF pow_rounds_up /\ w.st THEN BAdd(w.m, <<1>>) ELSE w.m,
                             w.e, FALSE))
  IN  IF r.k = "ovf"
      THEN PyRaise("OverflowError", "(34, 'Numerical result out of range')")
      ELSE PyFloat(r)

\* n is the whole number y stands for
FPow(x, y, pow_rounds_up) ==
  LET n == IF y.e >= 0 THEN BShl(y.m, y.e) ELSE BShr(y.m, -y.e)
      s == IF BBit(n, 0) = 1 THEN x.s ELSE 1
  IN  IF IsNaN(x) THEN PyFloat(NaN)
      ELSE IF IsInf(x) THEN PyFloat(Inf(s))
      ELSE IF IsZero(x) THEN PyFloat(Fin(s, <<>>, 0))
      ELSE PowResult(s, WTrunc(WPow(Wide(x.m, x.e, FALSE), n, WideBits), MantBits),
                     pow_rounds_up)

(***************************************************************************)
(* The finance functions.                                                  *)
(***************************************************************************)
MonthsPerYear == 12

ErrPrincipal == "Error: Principal must be a positive number."
ErrPayment == "Error: Monthly payment must be a positive number."
ErrRate == "Error: Annual interest rate cannot be negative."
ErrTerm == "Error: Loan term in years must be a positive integer."

\* x / y as Python evaluates it: division by zero raises
PyDiv(x, y) ==
  IF IsZero(y) THEN PyRaise("ZeroDivisionError", "float division by zero")
  ELSE PyFloat(FDiv(x, y))

\* lines 43-47 of calculate_mortgage_payment
PaymentRatio(principal, ratio) ==
  IF ratio.tag = "raise" THEN ratio ELSE PyFloat(FMul(principal, ratio.num))

\* lines 40-47, once (1 + monthly_interest_rate) ** total_payments is known
PaymentPower(principal, monthly_interest_rate, power_of_i) ==
  IF power_of_i.tag = "raise" THEN power_of_i
  ELSE PaymentRatio(principal,
                    PyDiv(FMul(monthly_interest_rate, power_of_i.num),
                          FSub(power_of_i.num, FromInt(1))))

\* lines 33-47
PaymentOver(principal, monthly_interest_rate, total_payments, pow_rounds_up) ==
  IF ToFloat(total_payments).tag = "raise" THEN ToFloat(total_payments)
  ELSE IF FEq(monthly_interest_rate, FZero)
  THEN PyFloat(FDiv(principal, ToFloat(total_payments).num))
  ELSE PaymentPower(principal, monthly_interest_rate,
                    FPow(FAdd(FromInt(1), monthly_interest_rate),
                         ToFloat(total_payments).num, pow_rounds_up))

\* pow_rounds_up: how the C library's pow rounds at line 40
calculate_mortgage_payment(principal, annual_interest_rate, loan_term_years, pow_rounds_up) ==
  IF FLe(principal, FZero) THEN PyStr(ErrPrincipal)
  ELSE IF FLt(annual_interest_rate, FZero) THEN PyStr(ErrRate)
  ELSE IF loan_term_years.s < 0 \/ loan_term_years.m = <<>> THEN PyStr(ErrTerm)
  ELSE PaymentOver(principal,
                   FDiv(annual_interest_rate, FromInt(MonthsPerYear)),
                   BigInt(1, BMulSmall(loan_term_years.m, MonthsPerYear)),
                   pow_rounds_up)

\* lines 82-87 of calculate_loan_amount
LoanRatio(monthly_payment, ratio) ==
  IF ratio.tag = "raise" THEN ratio ELSE PyFloat(FMul(monthly_payment, ratio.num))

\* lines 80-87, once (1 + monthly_interest_rate) ** total_payments is known
LoanPower(monthly_payment, monthly_interest_rate, power_of_i) ==
  IF power_of_i.tag = "raise" THEN power_of_i
  ELSE LoanRatio(monthly_payment,
                 PyDiv(FSub(power_of_i.num, FromInt(1)),
                       FMul(monthly_interest_rate, power_of_i.num)))

\* lines 76-87
LoanOver(monthly_payment, monthly_interest_rate, total_payments, pow_rounds_up) ==
  IF ToFloat(total_payments).tag = "raise" THEN ToFloat(total_payments)
  ELSE IF FEq(monthly_interest_rate, FZero)
  THEN PyFloat(FMul(monthly_payment, ToFloat(total_payments).num))
  ELSE LoanPower(monthly_payment, monthly_interest_rate,
                 FPow(FAdd(FromInt(1), monthly_interest_rate),
                      ToFloat(total_payments).num, pow_rounds_up))

\* pow_rounds_up: how the C library's pow rounds at line 82
calculate_loan_amount(monthly_payment, annual_interest_rate, loan_term_years, pow_rounds_up) ==
  IF FLe(monthly_payment, FZero) THEN PyStr(ErrPayment)
  ELSE IF FLt(annual_interest_rate, FZero) THEN PyStr(ErrRate)
  ELSE IF loan_term_years.s < 0 \/ loan_term_years.m = <<>> THEN PyStr(ErrTerm)
  ELSE LoanOver(monthly_payment,
                FDiv(annual_interest_rate, FromInt(MonthsPerYear)),
                BigInt(1, BMulSmall(loan_term_years.m, MonthsPerYear)),
                pow_rounds_up)

(***************************************************************************)
(* Text: a sequence of characters.  A character is a one-character string, *)
(* or the string "U+" and its code point in hexadecimal where a string of  *)
(* the specification language cannot hold the character.  float(text) and  *)
(* int(text) as Python parses them.                                        *)
(***************************************************************************)
\* The decimal digits of Unicode (category Nd), ten to a row in the order
\* of their values 0..9; float() and int() read each as its value.
DigitChars ==
  <<
    "0", "1", "2", "3", "4", "5", "6", "7", "8", "9",
    "U+0660", "U+0661", "U+0662", "U+0663", "U+0664", "U+0665", "U+0666", "U+0667", "U+0668", "U+0669",
    "۰", "۱", "۲", "۳", "۴", "۵", "۶", "۷", "۸", "۹",
    "߀", "߁", "߂", "߃", "߄", "߅", "߆", "߇", "߈", "߉",
    "U+0966", "U+0967", "U+0968", "U+0969", "U+096A", "U+096B", "U+096C", "U+096D", "U+096E", "U+096F",
    "০", "১", "২", "৩", "৪", "৫", "৬", "৭", "৮", "৯",
    "U+0A66", "U+0A67", "U+0A68", "U+0A69", "U+0A6A", "U+0A6B", "U+0A6C", "U+0A6D", "U+0A6E", "U+0A6F",
    "૦", "૧", "૨", "૩", "૪", "૫", "૬", "૭", "૮", "૯",
    "U+0B66", "U+0B67", "U+0B68", "U+0B69", "U+0B6A", "U+0B6B", "U+0B6C", "U+0B6D", "U+0B6E", "U+0B6F",
    "௦", "௧", "௨", "௩", "௪", "௫", "௬", "௭", "௮", "௯",
    "U+0C66", "U+0C67", "U+0C68", "U+0C69", "U+0C6A", "U+0C6B", "U+0C6C", "U+0C6D", "U+0C6E", "U+0C6F",
    "೦", "೧", "೨", "೩", "೪", "೫", "೬", "೭", "೮", "೯",
    "U+0D66", "U+0D67", "U+0D68", "U+0D69", "U+0D6A", "U+0D6B", "U+0D6C", "U+0D6D", "U+0D6E", "U+0D6F",
    "෦", "෧", "෨", "෩", "෪", "෫", "෬", "෭", "෮", "෯",
    "U+0E50", "U+0E51", "U+0E52", "U+0E53", "U+0E54", "U+0E55", "U+0E56", "U+0E57", "U+0E58", "U+0E59",
    "໐", "໑", "໒", "໓", "໔", "໕", "໖", "໗", "໘", "໙",
    "U+0F20", "U+0F21", "U+0F22", "U+0F23", "U+0F24", "U+0F25", "U+0F26", "U+0F27", "U+0F28", "U+0F29",
    "U+1040", "U+1041", "U+1042", "U+1043", "U+1044", "U+1045", "U+1046", "U+1047", "U+1048", "U+1049",
    "႐", "႑", "႒", "႓", "႔", "႕", "႖", "႗", "႘", "႙",
    "០", "១", "២", "៣", "៤", "៥", "៦", "៧", "៨", "៩",
    "U+1810", "U+1811", "U+1812", "U+1813", "U+1814", "U+1815", "U+1816", "U+1817", "U+1818", "U+1819",
    "U+1946", "U+1947", "U+1948", "U+1949", "U+194A", "U+194B", "U+194C", "U+194D", "U+194E", "U+194F",
    "᧐", "᧑", "᧒", "᧓", "᧔", "᧕", "᧖", "᧗", "᧘", "᧙",
    "᪀", "᪁", "᪂", "᪃", "᪄", "᪅", "᪆", "᪇", "᪈", "᪉",
    "᪐", "᪑", "᪒", "᪓", "᪔", "᪕", "᪖", "᪗", "᪘", "᪙",
    "U+1B50", "U+1B51", "U+1B52", "U+1B53", "U+1B54", "U+1B55", "U+1B56", "U+1B57", "U+1B58", "U+1B59",
    "᮰", "᮱", "᮲", "᮳", "᮴", "᮵", "᮶", "᮷", "᮸", "᮹",
    "U+1C40", "U+1C41", "U+1C42", "U+1C43", "U+1C44", "U+1C45", "U+1C46", "U+1C47", "U+1C48", "U+1C49",
    "U+1C50", "U+1C51", "U+1C52", "U+1C53", "U+1C54", "U+1C55", "U+1C56", "U+1C57", "U+1C58", "U+1C59",
    "U+A620", "U+A621", "U+A622", "U+A623", "U+A624", "U+A625", "U+A626", "U+A627", "U+A628", "U+A629",
    "꣐", "꣑", "꣒", "꣓", "꣔", "꣕", "꣖", "꣗", "꣘", "꣙",
    "U+A900", "U+A901", "U+A902", "U+A903", "U+A904", "U+A905", "U+A906", "U+A907", "U+A908", "U+A909",
    "꧐", "꧑", "꧒", "꧓", "꧔", "꧕", "꧖", "꧗", "꧘", "꧙",
    "꧰", "꧱", "꧲", "꧳", "꧴", "꧵", "꧶", "꧷", "꧸", "꧹",
    "U+AA50", "U+AA51", "U+AA52", "U+AA53", "U+AA54", "U+AA55", "U+AA56", "U+AA57", "U+AA58", "U+AA59",
    "꯰", "꯱", "꯲", "꯳", "꯴", "꯵", "꯶", "꯷", "꯸", "꯹",
    "U+FF10", "U+FF11", "U+FF12", "U+FF13", "U+FF14", "U+FF15", "U+FF16", "U+FF17", "U+FF18", "U+FF19",
    "U+104A0", "U+104A1", "U+104A2", "U+104A3", "U+104A4", "U+104A5", "U+104A6", "U+104A7", "U+104A8", "U+104A9",
    "U+10D30", "U+10D31", "U+10D32", "U+10D33", "U+10D34", "U+10D35", "U+10D36", "U+10D37", "U+10D38", "U+10D39",
    "U+11066", "U+11067", "U+11068", "U+11069", "U+1106A", "U+1106B", "U+1106C", "U+1106D", "U+1106E", "U+1106F",
    "U+110F0", "U+110F1", "U+110F2", "U+110F3", "U+110F4", "U+110F5", "U+110F6", "U+110F7", "U+110F8", "U+110F9",
    "U+11136", "U+11137", "U+11138", "U+11139", "U+1113A", "U+1113B", "U+1113C", "U+1113D", "U+1113E", "U+1113F",
    "U+111D0", "U+111D1", "U+111D2", "U+111D3", "U+111D4", "U+111D5", "U+111D6", "U+111D7", "U+111D8", "U+111D9",
    "U+112F0", "U+112F1", "U+112F2", "U+112F3", "U+112F4", "U+112F5", "U+112F6", "U+112F7", "U+112F8", "U+112F9",
    "U+11450", "U+11451", "U+11452", "U+11453", "U+11454", "U+11455", "U+11456", "U+11457", "U+11458", "U+11459",
    "U+114D0", "U+114D1", "U+114D2", "U+114D3", "U+114D4", "U+114D5", "U+114D6", "U+114D7", "U+114D8", "U+114D9",
    "U+11650", "U+11651", "U+11652", "U+11653", "U+11654", "U+11655", "U+11656", "U+11657", "U+11658", "U+11659",
    "U+116C0", "U+116C1", "U+116C2", "U+116C3", "U+116C4", "U+116C5", "U+116C6", "U+116C7", "U+116C8", "U+116C9",
    "U+11730", "U+11731", "U+11732", "U+11733", "U+11734", "U+11735", "U+11736", "U+11737", "U+11738", "U+11739",
    "U+118E0", "U+118E1", "U+118E2", "U+118E3", "U+118E4", "U+118E5", "U+118E6", "U+118E7", "U+118E8", "U+118E9",
    "U+11950", "U+11951", "U+11952", "U+11953", "U+11954", "U+11955", "U+11956", "U+11957", "U+11958", "U+11959",
    "U+11C50", "U+11C51", "U+11C52", "U+11C53", "U+11C54", "U+11C55", "U+11C56", "U+11C57", "U+11C58", "U+11C59",
    "U+11D50", "U+11D51", "U+11D52", "U+11D53", "U+11D54", "U+11D55", "U+11D56", "U+11D57", "U+11D58", "U+11D59",
    "U+11DA0", "U+11DA1", "U+11DA2", "U+11DA3", "U+11DA4", "U+11DA5", "U+11DA6", "U+11DA7", "U+11DA8", "U+11DA9",
    "U+16A60", "U+16A61", "U+16A62", "U+16A63", "U+16A64", "U+16A65", "U+16A66", "U+16A67", "U+16A68", "U+16A69",
    "U+16AC0", "U+16AC1", "U+16AC2", "U+16AC3", "U+16AC4", "U+16AC5", "U+16AC6", "U+16AC7", "U+16AC8", "U+16AC9",
    "U+16B50", "U+16B51", "U+16B52", "U+16B53", "U+16B54", "U+16B55", "U+16B56", "U+16B57", "U+16B58", "U+16B59",
    "U+1D7CE", "U+1D7CF", "U+1D7D0", "U+1D7D1", "U+1D7D2", "U+1D7D3", "U+1D7D4", "U+1D7D5", "U+1D7D6", "U+1D7D7",
    "U+1D7D8", "U+1D7D9", "U+1D7DA", "U+1D7DB", "U+1D7DC", "U+1D7DD", "U+1D7DE", "U+1D7DF", "U+1D7E0", "U+1D7E1",
    "U+1D7E2", "U+1D7E3", "U+1D7E4", "U+1D7E5", "U+1D7E6", "U+1D7E7", "U+1D7E8", "U+1D7E9", "U+1D7EA", "U+1D7EB",
    "U+1D7EC", "U+1D7ED", "U+1D7EE", "U+1D7EF", "U+1D7F0", "U+1D7F1", "U+1D7F2", "U+1D7F3", "U+1D7F4", "U+1D7F5",
    "U+1D7F6", "U+1D7F7", "U+1D7F8", "U+1D7F9", "U+1D7FA", "U+1D7FB", "U+1D7FC", "U+1D7FD", "U+1D7FE", "U+1D7FF",
    "U+1E140", "U+1E141", "U+1E142", "U+1E143", "U+1E144", "U+1E145", "U+1E146", "U+1E147", "U+1E148", "U+1E149",
    "U+1E2F0", "U+1E2F1", "U+1E2F2", "U+1E2F3", "U+1E2F4", "U+1E2F5", "U+1E2F6", "U+1E2F7", "U+1E2F8", "U+1E2F9",
    "U+1E950", "U+1E951", "U+1E952", "U+1E953", "U+1E954", "U+1E955", "U+1E956", "U+1E957", "U+1E958", "U+1E959",
    "U+1FBF0", "U+1FBF1", "U+1FBF2", "U+1FBF3", "U+1FBF4", "U+1FBF5", "U+1FBF6", "U+1FBF7", "U+1FBF8", "U+1FBF9"
  >>

IsDigit(c) == \E i \in DOMAIN DigitChars : DigitChars[i] = c
DigitVal(c) == ((CHOOSE i \in DOMAIN DigitChars : DigitChars[i] = c) - 1) % 10

\* the blanks float() and int() strip from both ends of the text
IsSpace(c) ==
  c \in {"\t", "\n", "", "\f", "\r", " ", "", " ", " ", "U+2000",
         "U+2001", "U+2002", "U+2003", "U+2004", "U+2005", "U+2006",
         "U+2007", "U+2008", "U+2009", "U+200A", "U+2028", "U+2029",
         "U+202F", "U+205F", "U+3000"}

\* the letters float() reads, in lower case
Lower(t) ==
  [i \in 1..Len(t) |->
     CASE t[i] = "N" -> "n" [] t[i] = "A" -> "a" [] t[i] = "I" -> "i"
       [] t[i] = "F" -> "f" [] t[i] = "T" -> "t" [] t[i] = "Y" -> "y"
       [] t[i] = "E" -> "e" [] OTHER -> t[i]]

Strip(t) ==
  LET keep == {i \in 1..Len(t) : ~IsSpace(t[i])}
  IN  IF keep = {} THEN <<>>
      ELSE SubSeq(t, CHOOSE i \in keep : \A j \in keep : i <= j,
                     CHOOSE i \in keep : \A j \in keep : i >= j)

\* an underscore may stand only between two digits
UnderscoresOK(t) ==
  \A i \in 1..Len(t) :
    t[i] = "_" => i > 1 /\ i < Len(t) /\ IsDigit(t[i - 1]) /\ IsDigit(t[i + 1])

SignOf(t) == IF t # <<>> /\ t[1] = "-" THEN -1 ELSE 1
Unsigned(t) == IF t # <<>> /\ t[1] \in {"+", "-"} THEN Tail(t) ELSE t

\* the digits lo..hi of t after the number acc, as a natural number of
\* any size
RECURSIVE DigitsToBig(_, _, _, _)
DigitsToBig(t, lo, hi, acc) ==
  After(acc,
    IF lo > hi THEN acc
    ELSE IF lo = hi THEN BAdd(BMulSmall(acc, 10), BFromInt(DigitVal(t[lo])))
    ELSE DigitsToBig(t, ((lo + hi) \div 2) + 1, hi,
                     DigitsToBig(t, lo, (lo + hi) \div 2, acc)))

\* the digits lo..hi of t after the number acc, as an int saturating at cap
RECURSIVE DigitsToInt(_, _, _, _, _)
DigitsToInt(t, lo, hi, acc, cap) ==
  After(acc,
    IF lo > hi THEN acc
    ELSE IF lo = hi THEN Min(cap, acc * 10 + DigitVal(t[lo]))
    ELSE DigitsToInt(t, ((lo + hi) \div 2) + 1, hi,
                     DigitsToInt(t, lo, (lo + hi) \div 2, acc, cap), cap))

\* Decimal exponents beyond these give an infinity or a zero in any case.
MaxDecExp == 400

\* the float nearest to s * n * 10^x, for a natural number n of nd digits:
\* n * 5^x * 2^x, or (n / 5^-x) * 2^x (5^k is exact: no product of the
\* power has more than 3 * k bits)
DecToFloat(s, n, nd, x) ==
  LET k == IF x < 0 THEN -x ELSE x
      pow5 == WPow(Wide(<<5>>, 0, FALSE), BFromInt(k), 3 * k).m
  IN
  IF n = <<>> \/ x + nd < -MaxDecExp THEN Fin(s, <<>>, 0)
  ELSE IF x > MaxDecExp THEN Inf(s)
  ELSE IF x = 0 THEN OrInf(Round(s, n, 0, FALSE))
  ELSE IF x > 0 THEN OrInf(Round(s, BMul(n, pow5), x, FALSE))
  ELSE OrInf(RoundRat(s, n, pow5, x))

\* the ValueError of float() and int(); the program never reads its message
ValueError == PyRaise("ValueError", "")

\* a numeric literal num without underscores: the text before and after
\* its first "e"
Literal(num) ==
  LET es == {i \in 1..Len(num) : num[i] = "e"}
      epos == IF es = {} THEN 0 ELSE CHOOSE i \in es : \A j \in es : i <= j
  IN  [hasexp |-> epos > 0,
       mant |-> IF epos = 0 THEN num ELSE SubSeq(num, 1, epos - 1),
       expo |-> IF epos = 0 THEN <<>> ELSE SubSeq(num, epos + 1, Len(num))]

\* the digits of a mantissa before and after its point
Parts(mant) ==
  LET dots == {i \in 1..Len(mant) : mant[i] = "."}
      dpos == IF dots = {} THEN Len(mant) + 1 ELSE CHOOSE i \in dots : TRUE
  IN  [points |-> Cardinality(dots),
       ipart |-> SubSeq(mant, 1, dpos - 1),
       fpart |-> SubSeq(mant, dpos + 1, Len(mant))]

FloatParts(s, ok, lit, parts) ==
  LET digits == parts.ipart \o parts.fpart
      edigits == Unsigned(lit.expo)
      wellformed ==
        /\ ok
        /\ parts.points <= 1
        /\ digits # <<>> /\ \A i \in DOMAIN digits : IsDigit(digits[i])
        /\ lit.hasexp => (edigits # <<>> /\ \A i \in DOMAIN edigits : IsDigit(edigits[i]))
      ex == SignOf(lit.expo)
              * DigitsToInt(edigits, 1, Len(edigits), 0, 2 * MaxDecExp + Len(digits))
  IN  IF ~wellformed THEN ValueError
      ELSE PyFloat(DecToFloat(s, DigitsToBig(digits, 1, Len(digits), <<>>),
                              Len(digits), ex - Len(parts.fpart)))

FloatLiteral(s, ok, lit) == FloatParts(s, ok, lit, Parts(lit.mant))

\* low is the text without its sign, in lower case
FloatOf(s, low) ==
  IF low = <<"n", "a", "n">> THEN PyFloat(NaN)
  ELSE IF low = <<"i", "n", "f">>
         \/ low = <<"i", "n", "f", "i", "n", "i", "t", "y">>
       THEN PyFloat(Inf(s))
  ELSE FloatLiteral(s, UnderscoresOK(low),
                    Literal(SelectSeq(low, LAMBDA c : c # "_")))

\* float(text)
float(text) == FloatOf(SignOf(Strip(text)), Lower(Unsigned(Strip(text))))

\* int(text): an int of any size, of no more than 4300 digits
int(text) ==
  LET t0 == Strip(text)
      body == Unsigned(t0)
      digits == SelectSeq(body, LAMBDA c : c # "_")
      n == DigitsToBig(digits, 1, Len(digits), <<>>)
  IN  IF digits = <<>> \/ (\E i \in DOMAIN digits : ~IsDigit(digits[i])) \/ ~UnderscoresOK(body)
         \/ Len(digits) > 4300
      THEN ValueError
      ELSE PyInt(BigInt(IF n = <<>> THEN 1 ELSE SignOf(t0), n))

(***************************************************************************)
(* Formatting: str(n) of an int, and the format specs ",.2f" and ".2f" of  *)
(* a float (the exact value rounded to two decimals, ties to even).        *)
(***************************************************************************)
\* the decimal digits of the int k >= 0, at least width of them
RECURSIVE IntDigits(_, _)
IntDigits(k, width) ==
  IF k < 10 /\ width <= 1 THEN <<DigitChars[k + 1]>>
  ELSE Append(IntDigits(k \div 10, width - 1), DigitChars[(k % 10) + 1])

\* steps lo..hi of the conversion to decimal, four digits at each step:
\* st.a is what is left of the number and st.ds the digits below it
RECURSIVE BigDigitsFrom(_, _, _)
BigDigitsFrom(lo, hi, st) ==
  After(st,
    IF lo > hi THEN st
    ELSE IF lo = hi
    THEN LET qr == BDivSmallFrom(st.a, 10000, 1, Len(st.a), <<0>>)
         IN  [a |-> BNorm(Tail(qr)), ds |-> IntDigits(qr[1], 4) \o st.ds]
    ELSE BigDigitsFrom(((lo + hi) \div 2) + 1, hi,
                       BigDigitsFrom(lo, (lo + hi) \div 2, st)))

\* the decimal digits of a: a number of b bits has no more than
\* b * 0.30103 + 1 digits; the zeros in front of the first digit are cut
BigDigits(a) ==
  LET ds == BigDigitsFrom(1, ((BBitLen(a) * 30103) \div 400000) + 1,
                          [a |-> a, ds |-> <<>>]).ds
      first == CHOOSE i \in 1..Len(ds) :
                 /\ i = Len(ds) \/ ds[i] # "0"
                 /\ \A j \in 1..(i - 1) : ds[j] = "0"
  IN  SubSeq(ds, first, Len(ds))

\* characters lo..hi of the text t as a string
RECURSIVE Join(_, _, _)
Join(t, lo, hi) ==
  IF lo > hi THEN ""
  ELSE IF lo = hi THEN t[lo]
  ELSE LET mid == (lo + hi) \div 2
       IN  Join(t, lo, mid) \o Join(t, mid + 1, hi)

\* str(n) of an int n
IntStr(n) ==
  (IF n.s < 0 THEN "-" ELSE "")
    \o Join(BigDigits(n.m), 1, Len(BigDigits(n.m)))

\* |x| * 100 rounded to the nearest integer, ties to even, for finite x
Cents(x) ==
  LET r == BMulSmall(x.m, 100)
  IN  IF x.e >= 0 THEN BShl(r, x.e)
      ELSE LET q == BShr(r, -x.e)
               half == BBit(r, -x.e - 1) = 1
               low == ~BLowZero(r, -x.e - 1)
           IN  IF half /\ (low \/ BBit(q, 0) = 1) THEN BAdd(q, <<1>>) ELSE q

\* the digits d with a comma before every group of three from the right
Grouped(d) ==
  LET n == Len(d)
      len == n + ((n - 1) \div 3)
  IN  [j \in 1..len |->
         LET p == len - j + 1
         IN  IF p % 4 = 0 THEN "," ELSE d[n - (p - (p \div 4)) + 1]]

\* the digits ds of an amount in hundredths, as [-]i.ff
Fixed(s, ds, comma) ==
  LET all == IF Len(ds) < 3 THEN [i \in 1..(3 - Len(ds)) |-> "0"] \o ds ELSE ds
      ip == IF comma THEN Grouped(SubSeq(all, 1, Len(all) - 2))
            ELSE SubSeq(all, 1, Len(all) - 2)
  IN  (IF s < 0 THEN "-" ELSE "") \o Join(ip, 1, Len(ip)) \o "."
        \o Join(all, Len(all) - 1, Len(all))

\* format(x, ",.2f") when comma, format(x, ".2f") otherwise
Fmt2f(x, comma) ==
  IF IsNaN(x) THEN "nan"
  ELSE IF IsInf(x) THEN (IF x.s < 0 THEN "-inf" ELSE "inf")
  ELSE Fixed(x.s, BigDigits(Cents(x)), comma)

(***************************************************************************)
(* The console application.                                                *)
(***************************************************************************)
VARIABLES
  pc,                    \* where the program blocks: "boot", "menu", a prompt, "exited"
  readchar_installed,    \* whether `import readchar` finds the library
  selected_index,        \* display_menu_and_get_selection: the highlighted option
  key,                   \* display_menu_and_get_selection: the key last read
  selected_choice_index, \* run_mortgage_calculator_app: the menu's return value
  locals,                \* run_mortgage_calculator_app: its local variables
  screen,                \* what was printed since the screen was last cleared
  termination,           \* "running", "clean", or how the process died
  stdin_lines,           \* how many lines the user will still type
  fin                    \* a direct call of the finance functions

vars == <<pc, readchar_installed, selected_index, key, selected_choice_index,
          locals, screen, termination, stdin_lines, fin>>

menu_options ==
  <<"Calculate Monthly Mortgage Payment (M)",
    "Calculate Affordable House Price (P)",
    "Exit">>

\* menu_options[i].lower()
menu_options_lower ==
  <<"calculate monthly mortgage payment (m)",
    "calculate affordable house price (p)",
    "exit">>

num_options == Len(menu_options)

SelectKeys == {"ENTER", " "}
CancelKeys == {"ESC", "CTRL_C"}

\* a title between two rules
Header(title) ==
  <<"-----------------------------------------", title,
    "-----------------------------------------">>

\* the lines display_menu_and_get_selection prints after clearing the screen
MenuScreen(selected) ==
  Header("   Mortgage Monthly Repayment Calculator ") \o
  <<"What would you like to do?",
    "\nUse ↑↓ arrow keys to navigate, Space/Enter to select. (Press ESC or Ctrl+C to quit)\n">>
  \o [i \in 1..num_options |->
        IF i - 1 = selected
        THEN "> [" \o DigitChars[i + 1] \o "] " \o menu_options[i] \o " <"
        ELSE "  [" \o DigitChars[i + 1] \o "] " \o menu_options[i]]

\* a highlight that stops at the last option instead of wrapping
MoveDownClamped(i, n) == IF i + 1 < n THEN i + 1 ELSE i

MoveUp(i, n) == (i - 1) % n
MoveDown(i, n) == (i + 1) % n

NoLocals ==
  [principal |-> Unbound, annual_rate |-> Unbound, term_years |-> Unbound,
   monthly_payment |-> Unbound, deposit_amount |-> Unbound,
   principal_amount |-> Unbound, deposit_percentage |-> Unbound]

NoCall == [amount |-> Unbound, rate |-> Unbound, term |-> Unbound,
           pow_rounds_up |-> FALSE,
           payment |-> Unbound, loan |-> Unbound, back |-> Unbound]

\* What input() yields: a line of text, EOFError at the end of the input,
\* or KeyboardInterrupt when the user interrupts.
EndOfInput == [kind |-> "eof", text |-> <<>>]
Interrupt == [kind |-> "interrupt", text |-> <<>>]
EOFError == PyRaise("EOFError", "EOF when reading a line")

ContinuePrompt == "Press Enter to return to the main menu..."
InvalidInputMessage ==
  "\nInvalid input. Please enter valid numbers for the amounts, rates, and years.\n"
UnexpectedMessage(e) == "\nAn unexpected error occurred: " \o e.text \o "\n"
Farewell == "\nThank you for using the Mortgage Calculator!"
InstallMessage ==
  <<"The 'readchar' library is required for interactive menu selection.",
    "Please install it using: pip install readchar">>

PrincipalPrompt == "\nEnter the principal loan amount (e.g., 200000): £"
RatePrompt == "Enter the annual interest rate (e.g., 4.5 for 4.5%): "
TermPrompt == "Enter the loan term in years (e.g., 25): "

PaymentPrompt == "\nEnter your desired monthly payment (e.g., 1110.00): £"
DepositPrompt == "How much deposit do you have?"
Rule == "-----------------------------------"
LtvWarning ==
  "You may not be granted a mortgage as your LTV ratio is more than 90%"

\* display_menu_and_get_selection up to its first readkey
ShowMenu ==
  /\ selected_index' = 0
  /\ screen' = MenuScreen(0)
  /\ pc' = "menu"

\* an exception no handler catches ends the process
Uncaught(exc) ==
  /\ pc' = "exited"
  /\ termination' = "uncaught " \o exc
  /\ UNCHANGED <<selected_index, key, selected_choice_index, locals, screen>>

\* the end of an action: what its try statement printed (new_locals, lines),
\* then the pause before returning to the menu
Pause(new_locals, lines) ==
  /\ locals' = new_locals
  /\ screen' = screen \o lines \o <<ContinuePrompt>>
  /\ pc' = "cont"
  /\ termination' = termination
  /\ UNCHANGED <<selected_index, key, selected_choice_index>>

\* the next prompt of the same try statement
Ask(new_locals, prompt, next_pc) ==
  /\ locals' = new_locals
  /\ screen' = Append(screen, prompt)
  /\ pc' = next_pc
  /\ termination' = termination
  /\ UNCHANGED <<selected_index, key, selected_choice_index>>

\* the except clauses of an action's try statement, for an exception e
\* raised when the local variables were new_locals
Except(new_locals, e) ==
  IF e.exc = "ValueError" THEN Pause(new_locals, <<InvalidInputMessage>>)
  ELSE Pause(new_locals, <<UnexpectedMessage(e)>>)

(***************************************************************************)
(* What input() yields at a prompt, for the texts the user may type: one   *)
(* of the texts while the user has lines to type, the end of the input or  *)
(* an interrupt at any time.                                               *)
(***************************************************************************)
MaxLines == 5

Typed(texts) ==
  {[kind |-> "line", text |-> t] : t \in IF stdin_lines > 0 THEN texts ELSE {}}
    \cup {EndOfInput, Interrupt}

(***************************************************************************)
(* Start of the script.                                                    *)
(***************************************************************************)
\* `import readchar`: None when the module loads, else the exception
ImportReadchar ==
  IF readchar_installed THEN "None" ELSE "ModuleNotFoundError"

\* The module body: the import of line 3, then the guarded import of the
\* __main__ block, then run_mortgage_calculator_app().
Launch ==
  /\ pc = "boot"
  /\ IF ImportReadchar # "None"
     THEN Uncaught(ImportReadchar)
     ELSE IF ImportReadchar # "None"
          THEN /\ screen' = screen \o InstallMessage
               /\ pc' = "exited"
               /\ termination' = "exit 1"
               /\ UNCHANGED <<selected_index, key, selected_choice_index, locals>>
          ELSE /\ ShowMenu
               /\ UNCHANGED <<key, selected_choice_index, locals, termination>>
  /\ UNCHANGED <<readchar_installed, stdin_lines, fin>>

\* the exit status the shell sees
ExitStatus ==
  IF termination = "clean" THEN 0
  ELSE IF termination = "uncaught KeyboardInterrupt" THEN 130
  ELSE 1

(***************************************************************************)
(* display_menu_and_get_selection: one key read by readchar.readkey().     *)
(***************************************************************************)
Navigate(k, index) ==
  /\ key' = k
  /\ selected_index' = index
  /\ screen' = MenuScreen(index)
  /\ UNCHANGED <<pc, readchar_installed, selected_choice_index, locals,
                 termination, stdin_lines, fin>>

KeyUp ==
  /\ pc = "menu"
  /\ Navigate("UP", MoveUp(selected_index, num_options))

KeyDown ==
  /\ pc = "menu"
  /\ Navigate("DOWN", MoveDown(selected_index, num_options))

\* any key the match statement has no case for
KeyOther ==
  /\ pc = "menu"
  /\ \E k \in {"x"} : Navigate(k, selected_index)

\* run_mortgage_calculator_app: the branch taken for the menu's return value
Dispatch(choice) ==
  /\ selected_choice_index' = choice
  /\ IF choice = -1 \/ menu_options_lower[choice + 1] = "exit"
     THEN /\ screen' = <<Farewell>>
          /\ pc' = "exited"
          /\ termination' = "clean"
     ELSE IF choice = 0
     THEN /\ screen' = Header("   Calculate Monthly Mortgage Payment    ") \o <<PrincipalPrompt>>
          /\ pc' = "m_principal"
          /\ termination' = termination
     ELSE IF choice = 1
     THEN /\ screen' = Header("   Calculate Affordable House Price (P)    ") \o <<PaymentPrompt>>
          /\ pc' = "a_payment"
          /\ termination' = termination
     ELSE /\ screen' = <<"\nInvalid selection. Please try again.\n", ContinuePrompt>>
          /\ pc' = "cont"
          /\ termination' = termination

\* what the menu returns for the key k
MenuReturn(k) == IF k \in SelectKeys THEN selected_index ELSE -1

KeySelect ==
  /\ pc = "menu"
  /\ \E k \in SelectKeys :
       /\ key' = k
       /\ Dispatch(MenuReturn(k))
  /\ UNCHANGED <<readchar_installed, selected_index, locals, stdin_lines, fin>>

\* readkey() returns readchar.key.ESC, or readchar.key.CTRL_C where the
\* library hands Ctrl-C over as a key
KeyCancel ==
  /\ pc = "menu"
  /\ \E k \in CancelKeys :
       /\ key' = k
       /\ Dispatch(MenuReturn(k))
  /\ UNCHANGED <<readchar_installed, selected_index, locals, stdin_lines, fin>>

\* readkey() raises KeyboardInterrupt: Ctrl-C where the library raises for
\* its interrupt keys (readchar 4, config.INTERRUPT_KEYS), and SIGINT with
\* any library.  key is not assigned, no except clause of
\* display_menu_and_get_selection or of its callers is in the way.
KeyInterrupt ==
  /\ pc = "menu"
  /\ Uncaught("KeyboardInterrupt")
  /\ UNCHANGED <<readchar_installed, stdin_lines, fin>>

(***************************************************************************)
(* An input() inside the try statement of an action.                       *)
(***************************************************************************)
\* the step for the answer inp: parsed, the step for a line of text,
\* unless input() itself raised
Answer(inp, parsed) ==
  /\ stdin_lines' = IF inp.kind = "line" THEN stdin_lines - 1 ELSE stdin_lines
  /\ IF inp.kind = "interrupt" THEN Uncaught("KeyboardInterrupt")
     ELSE IF inp.kind = "eof" THEN Except(locals, EOFError)
     ELSE parsed

\* v / 100 for the v that float() returned
Hundredth(v) == IF v.tag = "raise" THEN v ELSE PyFloat(FDiv(v.num, FromInt(100)))

\* the step after a parsed answer v: the except clauses when parsing
\* raised, else the next prompt with v bound to the local variable name
Bind(v, name, prompt, next_pc) ==
  IF v.tag = "raise" THEN Except(locals, v)
  ELSE Ask([locals EXCEPT ![name] = v], prompt, next_pc)

(***************************************************************************)
(* Menu action 0: the monthly payment.                                     *)
(***************************************************************************)
EnterPrincipal ==
  /\ pc = "m_principal"
  /\ \E inp \in Typed({<<"2","0","0","0","0","0">>, <<"-","1">>, <<"a","b","c">>,
                       <<"n","a","n">>}) :
       Answer(inp, Bind(float(inp.text), "principal", RatePrompt, "m_rate"))
  /\ UNCHANGED <<readchar_installed, fin>>

EnterRate ==
  /\ pc = "m_rate"
  /\ \E inp \in Typed({<<"4",".","5">>, <<"0">>, <<"-","0">>,
                       <<"1","e","-","1","5">>, <<"-","1">>, <<>>}) :
       Answer(inp, Bind(Hundredth(float(inp.text)), "annual_rate", TermPrompt, "m_term"))
  /\ UNCHANGED <<readchar_installed, fin>>

\* the lines printed for what a finance function returned without raising
ReportError(returned) == <<"\nError: " \o returned.text \o "\n">>

PaymentReport(principal, annual_rate, term_years, monthly_payment) ==
  <<"\n--- Calculation Result ---",
    "Loan Amount:             £" \o Fmt2f(principal, TRUE),
    "Annual Interest Rate:    "
       \o Fmt2f(FMul(annual_rate, FromInt(100)), FALSE) \o "%",
    "Loan Term:               " \o IntStr(term_years) \o " years",
    Rule,
    "Estimated Monthly Payment: £" \o Fmt2f(monthly_payment, TRUE),
    Rule \o "\n">>

\* lines 179-190: the report of what calculate_mortgage_payment returned
Computed(term_years, monthly_payment) ==
  IF monthly_payment.tag = "raise"
  THEN Except([locals EXCEPT !.term_years = term_years], monthly_payment)
  ELSE Pause([locals EXCEPT !.term_years = term_years,
                            !.monthly_payment = monthly_payment],
             IF monthly_payment.tag = "float"
             THEN PaymentReport(locals.principal.num, locals.annual_rate.num,
                                term_years.int, monthly_payment.num)
             ELSE ReportError(monthly_payment))

ParsedTerm(term_years, pow_rounds_up) ==
  IF term_years.tag = "raise" THEN Except(locals, term_years)
  ELSE Computed(term_years,
                calculate_mortgage_payment(locals.principal.num,
                                           locals.annual_rate.num, term_years.int,
                                           pow_rounds_up))

EnterTerm ==
  /\ pc = "m_term"
  /\ \E inp \in Typed({<<"2","5">>, <<"U+0662","U+0665">>, <<"1">>, <<"0">>,
                       <<"2",".","5">>,
                       <<"9","9","9","9","9","9","9","9","9","9","9">>}),
        pow_rounds_up \in BOOLEAN :
       Answer(inp, ParsedTerm(int(inp.text), pow_rounds_up))
  /\ UNCHANGED <<readchar_installed, fin>>

(***************************************************************************)
(* Menu action 1: the affordable house price.                              *)
(***************************************************************************)
EnterPayment ==
  /\ pc = "a_payment"
  /\ \E inp \in Typed({<<"1","1","1","0",".","0","0">>, <<"1","0","0">>, <<"0">>}) :
       Answer(inp, Bind(float(inp.text), "monthly_payment", DepositPrompt, "a_deposit"))
  /\ UNCHANGED <<readchar_installed, fin>>

\* a blank answer is a deposit of 0.0
EnterDeposit ==
  /\ pc = "a_deposit"
  /\ \E inp \in Typed({<<>>, <<"-","0">>, <<"5","0","0","0","0">>,
                       <<"-","1","2","0","0">>, <<"a","b","c">>}) :
       Answer(inp, Bind(IF inp.text # <<>> THEN float(inp.text) ELSE PyFloat(FZero),
                        "deposit_amount", RatePrompt, "a_rate"))
  /\ UNCHANGED <<readchar_installed, fin>>

EnterAffordRate ==
  /\ pc = "a_rate"
  /\ \E inp \in Typed({<<"4",".","5">>, <<"0">>, <<"1","e","-","1","5">>,
                       <<"1","e","3","0","0">>, <<"-","1">>}) :
       Answer(inp, Bind(Hundredth(float(inp.text)), "annual_rate", TermPrompt, "a_term"))
  /\ UNCHANGED <<readchar_installed, fin>>

\* the share of the deposit as a percentage
Times100(share) ==
  IF share.tag = "raise" THEN share ELSE PyFloat(FMul(share.num, FromInt(100)))

\* deposit_amount / (principal_amount + deposit_amount) * 100
DepositPercentage(deposit_amount, principal_amount) ==
  Times100(PyDiv(deposit_amount, FAdd(principal_amount, deposit_amount)))

AffordReport(monthly_payment, annual_rate, term_years, deposit_amount, deposit_percentage, principal_amount) ==
  <<"\n--- Calculation Result ---",
    "Desired Monthly Payment: £" \o Fmt2f(monthly_payment, TRUE),
    "Annual Interest Rate:    "
       \o Fmt2f(FMul(annual_rate, FromInt(100)), FALSE) \o "%",
    "Loan Term:               " \o IntStr(term_years) \o " years",
    "Deposit Amount:          £" \o Fmt2f(deposit_amount, TRUE),
    "Deposit Percentage:      " \o Fmt2f(deposit_percentage, TRUE) \o "%",
    Rule>>
  \o (IF FLt(deposit_percentage, FromInt(10)) THEN <<LtvWarning, Rule>> ELSE <<>>)
  \o <<"Estimated House Price Could Afford (inc deposit): £"
         \o Fmt2f(FAdd(principal_amount, deposit_amount), TRUE),
       "Consisting of Deposit: £" \o Fmt2f(deposit_amount, TRUE),
       "Total House Price (affordable): £" \o Fmt2f(principal_amount, TRUE),
       Rule \o "\n">>

\* lines 234-255: the report of what calculate_loan_amount returned
Afforded(term_years, principal_amount, deposit_percentage) ==
  IF deposit_percentage.tag = "raise"
  THEN Pause([locals EXCEPT !.term_years = term_years,
                            !.principal_amount = principal_amount],
             <<UnexpectedMessage(deposit_percentage)>>)
  ELSE Pause([locals EXCEPT !.term_years = term_years,
                            !.principal_amount = principal_amount,
                            !.deposit_percentage = deposit_percentage],
             IF principal_amount.tag = "float"
             THEN AffordReport(locals.monthly_payment.num, locals.annual_rate.num,
                               term_years.int, locals.deposit_amount.num,
                               deposit_percentage.num, principal_amount.num)
             ELSE ReportError(principal_amount))

\* lines 227-232
Lent(term_years, principal_amount) ==
  IF principal_amount.tag = "raise"
  THEN Except([locals EXCEPT !.term_years = term_years], principal_amount)
  ELSE Afforded(term_years, principal_amount,
                IF principal_amount.tag = "float"
                THEN DepositPercentage(locals.deposit_amount.num,
                                       principal_amount.num)
                ELSE PyInt(BigInt(-1, <<1>>)))

ParsedAffordTerm(term_years, pow_rounds_up) ==
  IF term_years.tag = "raise" THEN Except(locals, term_years)
  ELSE Lent(term_years,
            calculate_loan_amount(locals.monthly_payment.num,
                                  locals.annual_rate.num, term_years.int,
                                  pow_rounds_up))

EnterAffordTerm ==
  /\ pc = "a_term"
  /\ \E inp \in Typed({<<"2","5">>, <<" ","U+FF12","U+FF15","U+3000">>, <<"1">>, <<"0">>}),
        pow_rounds_up \in BOOLEAN :
       Answer(inp, ParsedAffordTerm(int(inp.text), pow_rounds_up))
  /\ UNCHANGED <<readchar_installed, fin>>

(***************************************************************************)
(* The pause before returning to the menu: input() outside any try.        *)
(***************************************************************************)
\* the local variables keep their values into the next turn of the loop
PressEnter ==
  /\ pc = "cont"
  /\ \E inp \in Typed({<<>>}) :
       /\ stdin_lines' = IF inp.kind = "line" THEN stdin_lines - 1 ELSE stdin_lines
       /\ IF inp.kind = "interrupt" THEN Uncaught("KeyboardInterrupt")
          ELSE IF inp.kind = "eof" THEN Uncaught("EOFError")
          ELSE /\ ShowMenu
               /\ UNCHANGED <<key, selected_choice_index, locals, termination>>
  /\ UNCHANGED <<readchar_installed, fin>>

Init ==
  /\ pc = "boot"
  /\ readchar_installed \in BOOLEAN
  /\ selected_index = 0
  /\ key = ""
  /\ selected_choice_index = 0
  /\ locals = NoLocals
  /\ screen = <<>>
  /\ termination = "running"
  /\ stdin_lines = MaxLines
  /\ fin = NoCall

Next ==
  \/ Launch
  \/ KeyUp
  \/ KeyDown
  \/ KeyOther
  \/ KeySelect
  \/ KeyCancel
  \/ KeyInterrupt
  \/ EnterPrincipal
  \/ EnterRate
  \/ EnterTerm
  \/ EnterPayment
  \/ EnterDeposit
  \/ EnterAffordRate
  \/ EnterAffordTerm
  \/ PressEnter

Spec == Init /\ [][Next]_vars
(***************************************************************************)
(* The finance functions called directly, on arguments of every kind.      *)
(***************************************************************************)
MaxTerm == 2

\* the calls: every amount, annual rate and term of these, on a build
\* whose pow rounds the power of the call down or up
Calls ==
  LET amounts ==
        {float(a) : a \in {<<"n","a","n">>, <<"i","n","f">>, <<"-","1">>, <<"0">>,
                           <<"5","e","-","3","2","4">>, <<"1">>,
                           <<"2","0","0","0","0","0">>,
                           <<"1",".","7","9","e","3","0","8">>}}
      rates ==
        {float(r) : r \in {<<"n","a","n">>, <<"i","n","f">>, <<"-","0",".","0","1">>,
                           <<"0">>, <<"1","e","-","1","7">>, <<"0",".","0","4","5">>,
                           <<"0",".","0","5">>, <<"1","2">>, <<"1","e","3","0","0">>}}
      terms ==
        {PyInt(BigInt(IF t < 0 THEN -1 ELSE 1, BFromInt(IF t < 0 THEN -t ELSE t))) :
           t \in (-1..MaxTerm) \cup {25}}
           \cup {int(<<"4","0","0","0","0","0","0","0","0","0">>)}
  IN  {[NoCall EXCEPT !.amount = a, !.rate = r, !.term = t, !.pow_rounds_up = u] :
         u \in BOOLEAN, a \in amounts, r \in rates, t \in terms}

FinInit ==
  /\ pc = "call"
  /\ readchar_installed = TRUE
  /\ selected_index = 0
  /\ key = ""
  /\ selected_choice_index = 0
  /\ locals = NoLocals
  /\ screen = <<>>
  /\ termination = "running"
  /\ stdin_lines = 0
  /\ fin \in Calls

\* calculate_mortgage_payment(amount, rate, term)
CallPayment ==
  /\ pc = "call"
  /\ fin.payment = Unbound
  /\ fin' = [fin EXCEPT !.payment =
               calculate_mortgage_payment(fin.amount.num, fin.rate.num, fin.term.int,
                                          fin.pow_rounds_up)]
  /\ UNCHANGED <<pc, readchar_installed, selected_index, key,
                 selected_choice_index, locals, screen, termination, stdin_lines>>

\* calculate_loan_amount(amount, rate, term)
CallLoan ==
  /\ pc = "call"
  /\ fin.loan = Unbound
  /\ fin' = [fin EXCEPT !.loan =
               calculate_loan_amount(fin.amount.num, fin.rate.num, fin.term.int,
                                     fin.pow_rounds_up)]
  /\ UNCHANGED <<pc, readchar_installed, selected_index, key,
                 selected_choice_index, locals, screen, termination, stdin_lines>>

\* calculate_loan_amount(M, rate, term) for the payment M that was returned
CallLoanBack ==
  /\ pc = "call"
  /\ fin.payment.tag = "float"
  /\ fin.back = Unbound
  /\ fin' = [fin EXCEPT !.back =
               calculate_loan_amount(fin.payment.num, fin.rate.num, fin.term.int,
                                     fin.pow_rounds_up)]
  /\ UNCHANGED <<pc, readchar_installed, selected_index, key,
                 selected_choice_index, locals, screen, termination, stdin_lines>>

FinNext ==
  \/ CallPayment
  \/ CallLoan
  \/ CallLoanBack

FinSpec == FinInit /\ [][FinNext]_vars
(***************************************************************************)
(* The properties.                                                         *)
(***************************************************************************)
\* amount > 0, rate >= 0 and term > 0, as Python compares them
Valid ==
  /\ FLt(FZero, fin.amount.num)
  /\ FLe(FZero, fin.rate.num)
  /\ fin.term.int.s > 0 /\ fin.term.int.m # <<>>

\* the reasons of the conditions the arguments violate
ReasonsDue(amount_reason) ==
  (IF FLt(FZero, fin.amount.num) THEN {} ELSE {amount_reason})
    \cup (IF FLe(FZero, fin.rate.num) THEN {} ELSE {ErrRate})
    \cup (IF fin.term.int.s > 0 /\ fin.term.int.m # <<>> THEN {} ELSE {ErrTerm})

Rejected(returned, amount_reason) ==
  returned.tag = "str" /\ returned.text \in ReasonsDue(amount_reason)

\* C1: both finance functions return a number only when amount > 0,
\* rate >= 0 and term > 0 all hold; when one of them is violated they return
\* the failure reason of a violated condition instead of a number.
C1_Validation ==
  /\ (fin.payment # Unbound /\ ~Valid) => Rejected(fin.payment, ErrPrincipal)
  /\ (fin.loan # Unbound /\ ~Valid) => Rejected(fin.loan, ErrPayment)

FAbs(x) == IF x.s < 0 THEN FNeg(x) ELSE x

RelTol == float(<<"1","e","-","9">>).num

\* x equals y up to the relative tolerance
Close(x, y) ==
  FEq(x, y) \/ FLe(FAbs(FSub(x, y)), FMul(RelTol, FAbs(y)))

\* C2: for valid P, r, t the payment M = calculate_mortgage_payment(P, r, t)
\* exists and calculate_loan_amount(M, r, t) is P up to tolerance.
C2_RoundTrip ==
  /\ (Valid /\ fin.payment # Unbound) => fin.payment.tag = "float"
  /\ (Valid /\ fin.back # Unbound) =>
       (fin.back.tag = "float" /\ Close(fin.back.num, fin.amount.num))

\* The round trip does return the principal whenever the payment is a
\* positive finite number.
RoundTripOfPositivePayment ==
  (Valid /\ fin.back # Unbound /\ IsFin(fin.payment.num)
     /\ FLt(FZero, fin.payment.num)) =>
    (fin.back.tag = "float" /\ Close(fin.back.num, fin.amount.num))

\* C3: for principal > 0, rate >= 0 and term > 0, calculate_mortgage_payment
\* raises nothing and returns a finite number above zero.
C3_PositiveFinite ==
  (Valid /\ fin.payment # Unbound) =>
    /\ fin.payment.tag = "float"
    /\ IsFin(fin.payment.num)
    /\ FLt(FZero, fin.payment.num)

\* C4: the highlight stays within 0..len(options)-1; down-arrow on the last
\* option moves it to the first, up-arrow on the first moves it to the last.
\* (A step in which readkey() raises reads no key: key keeps the last one.)
C4_MenuWrap ==
  /\ [](selected_index \in 0..(num_options - 1))
  /\ [][(pc = "menu" /\ termination' # "uncaught KeyboardInterrupt"
            /\ key' = "DOWN" /\ selected_index = num_options - 1)
          => selected_index' = 0]_vars
  /\ [][(pc = "menu" /\ termination' # "uncaught KeyboardInterrupt"
            /\ key' = "UP" /\ selected_index = 0)
          => selected_index' = num_options - 1]_vars

\* down-arrow was pressed on the last option
C4_Wrapped == pc = "menu" /\ key = "DOWN" /\ selected_index = 0

\* C5: Escape or the interrupt (Ctrl-C) at any highlight makes the menu
\* return -1, whether the interrupt arrives as a key or as
\* KeyboardInterrupt; Enter or Space returns the highlight, which is never -1.
C5_CancelSentinel ==
  [][pc = "menu" =>
       (((key' \in CancelKeys \/ termination' = "uncaught KeyboardInterrupt")
           => (pc' # "menu" /\ selected_choice_index' = -1))
          /\ (key' \in SelectKeys =>
                (pc' # "menu"
                   /\ selected_choice_index' = selected_index
                   /\ selected_choice_index' \in 0..(num_options - 1))))]_vars

\* The sentinel is returned for every key value the match statement reads:
\* whenever readkey() returns ESC or CTRL_C the menu returns -1, and Enter
\* or Space returns the highlight, which is never -1.
SentinelWhenReadkeyReturns ==
  [][(pc = "menu" /\ termination' # "uncaught KeyboardInterrupt") =>
       ((key' \in CancelKeys => (pc' # "menu" /\ selected_choice_index' = -1))
          /\ (key' \in SelectKeys =>
                (pc' # "menu"
                   /\ selected_choice_index' = selected_index
                   /\ selected_choice_index' \in 0..(num_options - 1))))]_vars

\* C6: the loop of run_mortgage_calculator_app ends only through the Exit
\* option or the cancel sentinel, never through a failure at a prompt.
C6_NoEscape ==
  (readchar_installed /\ pc = "exited") => termination = "clean"

\* C7: without readchar the program prints the install message and exits
\* with a non-zero status through its startup check; the menu is started
\* only with readchar.
C7_StartupCheck ==
  /\ pc = "menu" => readchar_installed
  /\ (~readchar_installed /\ pc # "boot") =>
       /\ pc = "exited"
       /\ screen = InstallMessage
       /\ termination = "exit 1"
       /\ ExitStatus # 0

ActionPrompts ==
  {"m_principal", "m_rate", "m_term", "a_payment", "a_deposit", "a_rate", "a_term"}

\* how many times the line was printed since the screen was cleared
Count(line) == Cardinality({i \in DOMAIN screen : screen[i] = line})

\* C8: an action that ends in a result, a validation failure, a parse
\* failure or an unexpected failure is followed by the continue prompt,
\* printed once, and then by the menu; a failure before the last prompt
\* prints one message and skips the rest; the menu is shown again only from
\* the answered continue prompt.
C8_ContinuePrompt ==
  /\ [](pc = "cont" => (Count(ContinuePrompt) = 1
                         /\ screen[Len(screen)] = ContinuePrompt))
  /\ [](pc \in ActionPrompts => Count(ContinuePrompt) = 0)
  /\ [][(pc \in ActionPrompts) => pc' \in ActionPrompts \cup {"cont"}]_vars
  /\ [][(pc \in ActionPrompts \ {"m_term", "a_term"} /\ pc' = "cont") =>
          (\E message \in {InvalidInputMessage, UnexpectedMessage(EOFError)} :
             screen' = screen \o <<message, ContinuePrompt>>)]_vars
  /\ [][(pc' = "menu" /\ pc # "menu") => pc \in {"boot", "cont"}]_vars
  /\ [][pc = "cont" => (pc' = "menu" /\ screen' = MenuScreen(0))]_vars

\* The order of C8 does hold of every action that no uncaught exception
\* ends: the continue prompt is printed once, and the menu is shown again
\* only from the answered continue prompt.
PromptThenMenuUnlessUncaught ==
  /\ [](pc = "cont" => (Count(ContinuePrompt) = 1
                         /\ screen[Len(screen)] = ContinuePrompt))
  /\ [](pc \in ActionPrompts => Count(ContinuePrompt) = 0)
  /\ [][(pc \in ActionPrompts /\ termination' = "running") =>
          pc' \in ActionPrompts \cup {"cont"}]_vars
  /\ [][(pc' = "menu" /\ pc # "menu") => pc \in {"boot", "cont"}]_vars
  /\ [][(pc = "cont" /\ termination' = "running") =>
          (pc' = "menu" /\ screen' = MenuScreen(0))]_vars

\* what an action prints before the answer to its last prompt is read
PaymentPrompts ==
  Header("   Calculate Monthly Mortgage Payment    ")
    \o <<PrincipalPrompt, RatePrompt, TermPrompt>>

AffordPrompts ==
  Header("   Calculate Affordable House Price (P)    ")
    \o <<PaymentPrompt, DepositPrompt, RatePrompt, TermPrompt>>

\* The action that asked these prompts has ended and the answer to its last
\* prompt was read and parsed: its finance function was called, on the
\* values the local variables now hold.
Called(prompts) ==
  /\ pc = "cont"
  /\ Len(screen) > Len(prompts)
  /\ SubSeq(screen, 1, Len(prompts)) = prompts
  /\ screen[Len(prompts) + 1]
       \notin {InvalidInputMessage, UnexpectedMessage(EOFError)}

PercentageLine(percentage) ==
  "Deposit Percentage:      " \o Fmt2f(percentage, TRUE) \o "%"

\* C9: when calculate_loan_amount returns a number P, the percentage
\* D / (P + D) * 100 is shown and the LTV warning is printed exactly when it
\* is below 10; when it returns a failure reason neither is printed.
C9_DepositPercentage ==
  Called(AffordPrompts) =>
    \A pow_rounds_up \in BOOLEAN :
      LET P == calculate_loan_amount(locals.monthly_payment.num,
                                     locals.annual_rate.num,
                                     locals.term_years.int, pow_rounds_up)
          D == locals.deposit_amount.num
      IN  P = locals.principal_amount =>
            IF P.tag = "float"
            THEN /\ ~IsZero(FAdd(P.num, D))
                 /\ Count(PercentageLine(FMul(FDiv(D, FAdd(P.num, D)),
                                              FromInt(100)))) = 1
                 /\ Count(LtvWarning) =
                      (IF FLt(FMul(FDiv(D, FAdd(P.num, D)), FromInt(100)),
                              FromInt(10))
                       THEN 1 ELSE 0)
            ELSE screen = AffordPrompts \o ReportError(P) \o <<ContinuePrompt>>

\* what the finance call of the action that has ended returned, when it
\* returned a failure reason (a reason does not depend on how pow rounds)
Returned ==
  IF Called(PaymentPrompts)
  THEN calculate_mortgage_payment(locals.principal.num, locals.annual_rate.num,
                                  locals.term_years.int, FALSE)
  ELSE IF Called(AffordPrompts)
  THEN calculate_loan_amount(locals.monthly_payment.num, locals.annual_rate.num,
                             locals.term_years.int, FALSE)
  ELSE Unbound

\* C10: a failure reason returned by a finance function is printed as it
\* is, with nothing added to its text.
C10_Verbatim ==
  Returned.tag = "str" =>
    \E i \in DOMAIN screen :
      screen[i] \in {Returned.text, "\n" \o Returned.text \o "\n"}
====
